---------------------------- MODULE Spec2Model ----------------------------
(***************************************************************************)
(* Session cache and streaming controller of watchify_server.mjs.          *)
(*                                                                         *)
(* The program is a Node.js process: every handler runs to its next await  *)
(* without interruption, and promise continuations (microtasks) run before *)
(* any timer, network event or new request (macrotasks).  The swarm engine *)
(* (WebTorrent) is an external collaborator; it is modelled by what the    *)
(* handler observes of it: client.get / client.add are synchronous,        *)
(* client.add registers the new torrent at once, its callback runs when    *)
(* the torrent becomes ready, torrent.destroy() sets torrent.destroyed and *)
(* removes the torrent from the client at once.                            *)
(*                                                                         *)
(* Time is discrete; one unit is half of TORRENT_TTL.  The model keeps no   *)
(* absolute clock: a timer carries the time left until its deadline, and a *)
(* tick of the clock takes one unit off every armed timer.  A timer fires  *)
(* when no time is left (the clock does not pass an armed timer).          *)
(***************************************************************************)
EXTENDS Integers, Sequences, FiniteSets, Bags, TLC

(* ------------------------------ bounds -------------------------------- *)
MaxReq  == 2      \* number of /stream requests in a run
MaxHdr  == 4      \* length of a Range header value, in tokens
MaxLen  == 3      \* file.length of the selected file, in bytes

(* ------------------------- program constants -------------------------- *)
TORRENT_TTL == 2  \* 10 minutes, in model time units

(* ------------------------------ inputs -------------------------------- *)
\* A magnet link is <<info hash, display name>>; two links may differ in
\* their display name and still name the same content.
NoMagnet   == <<0, 0>>
Magnets    == {<<1, 1>>, <<1, 2>>, <<2, 1>>}
InfoHashes == {1, 2}
Requests   == 1..MaxReq
Ranges     == {"none", "bytes"}     \* req.headers.range absent / present

(* ------------------------ the Range header value ----------------------- *)
\* A header value is a string, modelled as a sequence of tokens: the text
\* "bytes=", the hyphen and decimal digits.  No token is a part of another,
\* so searching for the text "bytes=" or "-" is searching for the token.
Digits     == <<"0", "1", "2", "3", "4", "5", "6", "7", "8", "9">>
Alphabet   == {"bytes=", "-", "0", "1", "2"}
RECURSIVE Strings(_)
Strings(n) ==
    IF n = 0 THEN {<<>>}
    ELSE Strings(n - 1) \cup
         {Append(str, c) : str \in {t \in Strings(n - 1) : Len(t) = n - 1},
                           c \in Alphabet}
FileSizes  == 1..MaxLen

\* a JavaScript number: an integer or NaN
NaN    == [nan |-> TRUE, val |-> 0]
Num(v) == [nan |-> FALSE, val |-> v]
Minus(a, b) == IF a.nan \/ b.nan THEN NaN ELSE Num(a.val - b.val)
Plus(a, b)  == IF a.nan \/ b.nan THEN NaN ELSE Num(a.val + b.val)

IsDigit(c)  == \E d \in 1..10 : Digits[d] = c
DigitVal(c) == (CHOOSE d \in 1..10 : Digits[d] = c) - 1

\* the index of the first occurrence of token c in str, or 0
IndexOf(str, c) ==
    LET hits == {i \in 1..Len(str) : str[i] = c}
    IN IF hits = {} THEN 0 ELSE CHOOSE i \in hits : \A j \in hits : i <= j

\* range.replace(/bytes=/, ""): the first occurrence is taken out
ReplaceBytes(str) ==
    LET i == IndexOf(str, "bytes=")
    IN IF i = 0 THEN str
       ELSE SubSeq(str, 1, i - 1) \o SubSeq(str, i + 1, Len(str))

\* str.split("-")
RECURSIVE Split(_)
Split(str) ==
    LET i == IndexOf(str, "-")
    IN IF i = 0 THEN <<str>>
       ELSE <<SubSeq(str, 1, i - 1)>> \o Split(SubSeq(str, i + 1, Len(str)))

\* the value of a string of decimal digits
RECURSIVE Decimal(_)
Decimal(ds) ==
    IF ds = <<>> THEN 0
    ELSE Decimal(SubSeq(ds, 1, Len(ds) - 1)) * 10 + DigitVal(ds[Len(ds)])

\* parseInt(str, 10): the value of the longest prefix of digits, NaN if that
\* prefix is empty (the split has taken every sign out of str)
ParseInt(str) ==
    LET n == CHOOSE k \in 0..Len(str) :
                 /\ \A i \in 1..k : IsDigit(str[i])
                 /\ k < Len(str) => ~IsDigit(str[k + 1])
    IN IF n = 0 THEN NaN ELSE Num(Decimal(SubSeq(str, 1, n)))

\* `${n}` for a number n
RECURSIVE NatToString(_)
NatToString(n) ==
    IF n < 10 THEN <<Digits[n + 1]>>
    ELSE Append(NatToString(n \div 10), Digits[(n % 10) + 1])
NumToString(n) ==
    IF n.nan THEN <<"NaN">>
    ELSE IF n.val < 0 THEN <<"-">> \o NatToString(0 - n.val)
    ELSE NatToString(n.val)

\* lines 100-102
RangeStart(parts) == ParseInt(parts[1])
RangeEnd(parts, fileSize) ==
    IF Len(parts) >= 2 /\ parts[2] # <<>>
    THEN ParseInt(parts[2])
    ELSE Num(fileSize - 1)
ChunkSizeNoPlusOne(start, end) == Minus(end, start)
ChunkSize(start, end) == Plus(Minus(end, start), Num(1))

\* `bytes ${start}-${end}/${fileSize}`
ContentRange(start, end, fileSize) ==
    <<"bytes ">> \o NumToString(start) \o <<"-">> \o NumToString(end)
                 \o <<"/">> \o NumToString(Num(fileSize))

\* lines 98-114: what the range branch passes to res.writeHead and to
\* file.createReadStream
RangeResponse(range, fileSize) ==
    LET parts == Split(ReplaceBytes(range))
        start == RangeStart(parts)
        end   == RangeEnd(parts, fileSize)
    IN [status  |-> 206,
        headers |-> [ContentRange  |-> ContentRange(start, end, fileSize),
                     AcceptRanges  |-> "bytes",
                     ContentLength |-> ChunkSize(start, end),
                     ContentType   |-> "video/mp4"],
        start   |-> start,
        end     |-> end]

\* lines 132-138: the full-file branch; createReadStream() has no bounds and
\* reads the file from its first byte to its last
FullResponse(fileSize) ==
    [status  |-> 200,
     headers |-> [ContentRange  |-> <<>>,
                  AcceptRanges  |-> "bytes",
                  ContentLength |-> Num(fileSize),
                  ContentType   |-> "video/mp4"],
     start   |-> Num(0),
     end     |-> Num(fileSize - 1)]

\* nothing written yet
NoRes == [status  |-> 0,
          headers |-> [ContentRange |-> <<>>, AcceptRanges |-> "",
                       ContentLength |-> NaN, ContentType |-> ""],
          start   |-> NaN,
          end     |-> NaN]

\* req.headers.range: absent, or a string
NoRange == [present |-> FALSE, value |-> <<>>]
RangeHeaders ==
    {NoRange} \cup {[present |-> TRUE, value |-> str] : str \in Strings(MaxHdr)}

\* if (range): undefined and the empty string are falsy
Truthy(range) == range.present /\ range.value # <<>>

NoRng == [range |-> NoRange, fileSize |-> 0, res |-> NoRes]

\* parse-torrent, as used by client.get and by the Torrent constructor
InfoHash(magnet) == magnet[1]

\* torrent.files of each content: content 1 holds a video, content 2 none
Files(infoHash) ==
    IF infoHash = 1
    THEN << [stem |-> "readme", ext |-> ".txt"], [stem |-> "movie", ext |-> ".mkv"],
            [stem |-> "extra", ext |-> ".mp4"] >>
    ELSE << [stem |-> "notes", ext |-> ".txt"], [stem |-> "cover", ext |-> ".jpg"] >>

\* file.name.endsWith(suffix)
EndsWith(file, suffix) == file.ext = suffix

\* torrent.files.find(...): index of the first file with a video extension, or 0
FindFile(files) ==
    LET hits == {i \in 1..Len(files) :
                    \/ EndsWith(files[i], ".mp4")
                    \/ EndsWith(files[i], ".mkv")
                    \/ EndsWith(files[i], ".avi")}
    IN IF hits = {} THEN 0 ELSE CHOOSE i \in hits : \A j \in hits : i <= j

NoTorrent == 0
NoEntry   == [torrent |-> 0, timeout |-> 0]

VARIABLES
    torrents,       \* every Torrent the engine has created, by instance
    activeTorrents, \* the cache table: info hash -> {torrent, timeout}
    timers,         \* the armed timers: a bag of [torrent, left]
    req,            \* the /stream requests: position in the handler and locals
    obs,            \* observation only: what happened to each Torrent
    rng             \* one response head: [range, fileSize, res]

vars == <<torrents, activeTorrents, timers, req, obs, rng>>

\* torrents are numbered in their order of creation; every request creates
\* at most one, so there are never more torrents than requests
Sessions == 1..Len(torrents)

\* torrent.destroyed is false and the torrent is in client.torrents
Live(s) == ~torrents[s].destroyed

\* a lookup that knows only the torrents that are ready (as a lookup in the
\* cache table would)
ClientGetReadyOnly(magnet) ==
    IF \E s \in Sessions : Live(s) /\ torrents[s].ready
                              /\ torrents[s].infoHash = InfoHash(magnet)
    THEN CHOOSE s \in Sessions : Live(s) /\ torrents[s].ready
                                    /\ torrents[s].infoHash = InfoHash(magnet)
    ELSE NoTorrent

\* client.get(magnet): the torrent of client.torrents with that info hash
ClientGet(magnet) ==
    IF \E s \in Sessions : Live(s) /\ torrents[s].infoHash = InfoHash(magnet)
    THEN CHOOSE s \in Sessions : Live(s) /\ torrents[s].infoHash = InfoHash(magnet)
    ELSE NoTorrent

\* the continuations of resolved promises that have not run yet
Resumable == {r \in Requests : req[r].pc = "resume"}
NoMicrotasks == Resumable = {}

\* A timer handle names the timer by the torrent its callback captured and
\* the time left to its deadline; two timers that agree on both behave alike.
Timer(s, left) == [torrent |-> s, left |-> left]
Armed == BagToSet(timers)

IdleReq == [pc |-> "idle", torrent |-> NoTorrent, status |-> 0, stream |-> "none"]

\* age: time since the last keepTorrentAlive of the torrent, -1 before the
\*   first, counted up to TORRENT_TTL ("the TTL or longer ago");
\* sinceClose: time since the last 'close' of a response that was reading the
\*   torrent while the torrent was not destroyed, if that is less than
\*   TORRENT_TTL; -1 otherwise;
\* destroyedBy: "none", "error" (fatal error), "timer" (expiry) or
\*   "timerEarly" (expiry less than TORRENT_TTL after the last refresh)
NoObs == [age |-> -1, sinceClose |-> -1, destroyedBy |-> "none"]

Init ==
    /\ torrents = <<>>
    /\ activeTorrents = [h \in InfoHashes |-> NoEntry]
    /\ timers = EmptyBag
    /\ req = [r \in Requests |-> IdleReq]
    /\ obs = <<>>
    /\ rng = NoRng

(* --------------------------- keepTorrentAlive -------------------------- *)
\* clearTimeout(existing.timeout) for the entry stored under the info hash
ClearExisting(h) ==
    LET existing == activeTorrents[h] IN
    IF existing # NoEntry /\ BagIn(Timer(existing.torrent, existing.timeout), timers)
    THEN timers (-) SetToBag({Timer(existing.torrent, existing.timeout)})
    ELSE timers

\* setTimeout(..., TORRENT_TTL) and activeTorrents.set(infoHash, {torrent, timeout})
keepTorrentAlive(s) ==
    LET h == torrents[s].infoHash IN
    /\ timers' = ClearExisting(h) (+) SetToBag({Timer(s, TORRENT_TTL)})
    /\ activeTorrents' = [activeTorrents EXCEPT
                            ![h] = [torrent |-> s, timeout |-> TORRENT_TTL]]

\* observation of a keepTorrentAlive(s) call
Refreshed(s) == [obs EXCEPT ![s].age = 0]

(* ------------------------- the /stream handler ------------------------- *)
\* requests are numbered in their order of arrival
Arrives(r) ==
    /\ NoMicrotasks
    /\ req[r].pc = "idle"
    /\ \A q \in Requests : q < r => req[q].pc # "idle"

\* req.query.magnet is missing: 400, nothing else happens
StreamNoMagnet(r) ==
    /\ Arrives(r)
    /\ req' = [req EXCEPT ![r].pc = "done", ![r].status = 400]
    /\ UNCHANGED <<torrents, activeTorrents, timers, obs>>
    /\ UNCHANGED rng

\* client.add without looking at the result of client.get
StreamAddUnchecked(r, magnet) ==
    /\ Arrives(r)
    /\ torrents' = Append(torrents, [infoHash |-> InfoHash(magnet), ready |-> FALSE,
                                     destroyed |-> FALSE, listeners |-> 0])
    /\ obs' = Append(obs, NoObs)
    /\ req' = [req EXCEPT ![r].pc = "adding", ![r].torrent = Len(torrents) + 1]
    /\ UNCHANGED <<activeTorrents, timers>>
    /\ UNCHANGED rng

\* client.get finds nothing: client.add, then await its callback
StreamAdd(r, magnet) ==
    /\ Arrives(r)
    /\ ClientGet(magnet) = NoTorrent
    /\ torrents' = Append(torrents, [infoHash |-> InfoHash(magnet), ready |-> FALSE,
                                     destroyed |-> FALSE, listeners |-> 0])
    /\ obs' = Append(obs, NoObs)
    /\ req' = [req EXCEPT ![r].pc = "adding", ![r].torrent = Len(torrents) + 1]
    /\ UNCHANGED <<activeTorrents, timers>>
    /\ UNCHANGED rng

\* reuse of a torrent that is not ready without waiting for 'ready'
\* (the check of torrent.ready at line 78 left out)
StreamJoinNoWait(r, magnet) ==
    /\ Arrives(r)
    /\ ClientGet(magnet) # NoTorrent
    /\ ~torrents[ClientGet(magnet)].ready
    /\ keepTorrentAlive(ClientGet(magnet))
    /\ obs' = Refreshed(ClientGet(magnet))
    /\ req' = [req EXCEPT ![r].pc = "streaming", ![r].status = 200,
                          ![r].stream = "open", ![r].torrent = ClientGet(magnet)]
    /\ torrents' = [torrents EXCEPT ![ClientGet(magnet)].listeners = @ + 1]
    /\ UNCHANGED rng

\* client.get finds a torrent that is not ready: await its 'ready' event
StreamJoinWait(r, magnet) ==
    /\ Arrives(r)
    /\ ClientGet(magnet) # NoTorrent
    /\ ~torrents[ClientGet(magnet)].ready
    /\ req' = [req EXCEPT ![r].pc = "waitReady", ![r].torrent = ClientGet(magnet)]
    /\ UNCHANGED <<torrents, activeTorrents, timers, obs>>
    /\ UNCHANGED rng

\* lines 82-157: refresh, file selection, headers, stream, handlers.
\* req.headers.range is read here for the first time.
Serve(r, s, range) ==
    /\ keepTorrentAlive(s)
    /\ obs' = Refreshed(s)
    /\ IF FindFile(Files(torrents[s].infoHash)) = 0
       THEN /\ req' = [req EXCEPT ![r].pc = "done", ![r].status = 404,
                                  ![r].torrent = s]
            /\ UNCHANGED torrents
       ELSE /\ req' = [req EXCEPT ![r].pc = "streaming",
                                  ![r].status = IF range = "bytes" THEN 206 ELSE 200,
                                  ![r].stream = "open",
                                  ![r].torrent = s]
            /\ torrents' = [torrents EXCEPT ![s].listeners = @ + 1]
    /\ UNCHANGED rng

\* client.get finds a ready torrent: the handler runs to its end at once
StreamJoinReady(r, magnet, range) ==
    /\ Arrives(r)
    /\ ClientGet(magnet) # NoTorrent
    /\ torrents[ClientGet(magnet)].ready
    /\ Serve(r, ClientGet(magnet), range)

\* the continuation after 'await': promises resolve in listener order
StreamResume(r, range) ==
    /\ req[r].pc = "resume"
    /\ \A q \in Resumable : r <= q
    /\ Serve(r, req[r].torrent, range)

(* ------------------------------ the engine ----------------------------- *)
\* the torrent emits 'ready': the client.add callback and every
\* torrent.once('ready') listener resolve their promise
TorrentReady(s) ==
    /\ NoMicrotasks
    /\ s \in Sessions
    /\ Live(s)
    /\ ~torrents[s].ready
    /\ torrents' = [torrents EXCEPT ![s].ready = TRUE]
    /\ req' = [r \in Requests |->
                 IF req[r].torrent = s /\ req[r].pc \in {"adding", "waitReady"}
                 THEN [req[r] EXCEPT !.pc = "resume"]
                 ELSE req[r]]
    /\ UNCHANGED <<activeTorrents, timers, obs>>
    /\ UNCHANGED rng

\* the torrent emits 'error' (a fatal session error).  Every listener that a
\* request registered at line 153 runs: destroy unless destroyed, delete the
\* entry.  With no listener registered no line of the program runs; the case
\* modelled then is the one where the engine has torn the torrent down itself.
TorrentError(s) ==
    /\ NoMicrotasks
    /\ s \in Sessions
    /\ Live(s)
    /\ torrents' = [torrents EXCEPT ![s].destroyed = TRUE]
    /\ activeTorrents' =
         IF torrents[s].listeners > 0
         THEN [activeTorrents EXCEPT ![torrents[s].infoHash] = NoEntry]
         ELSE activeTorrents
    /\ obs' = [obs EXCEPT ![s].destroyedBy = "error"]
    /\ UNCHANGED <<timers, req>>
    /\ UNCHANGED rng

\* the byte stream of a request emits 'error' (lines 117-120, 141-144)
StreamError(r) ==
    /\ NoMicrotasks
    /\ req[r].pc = "streaming"
    /\ req[r].stream = "open"
    /\ req' = [req EXCEPT ![r].stream = "errored"]
    /\ keepTorrentAlive(req[r].torrent)
    /\ obs' = Refreshed(req[r].torrent)
    /\ UNCHANGED <<torrents>>
    /\ UNCHANGED rng

\* a 'close' handler that tears the torrent down with the response
\* (torrent.destroy() in place of keepTorrentAlive(torrent))
ResCloseDestroysTorrent(r) ==
    /\ NoMicrotasks
    /\ req[r].pc = "streaming"
    /\ req' = [req EXCEPT ![r].pc = "closed", ![r].stream = "destroyed"]
    /\ torrents' = [torrents EXCEPT ![req[r].torrent].destroyed = TRUE]
    /\ UNCHANGED <<activeTorrents, timers, obs>>
    /\ UNCHANGED rng

\* the response emits 'close': the transfer is over or the client has gone
\* (lines 122-126, 146-150)
ResClose(r) ==
    /\ NoMicrotasks
    /\ req[r].pc = "streaming"
    /\ req' = [req EXCEPT ![r].pc = "closed", ![r].stream = "destroyed"]
    /\ keepTorrentAlive(req[r].torrent)
    /\ obs' = [Refreshed(req[r].torrent) EXCEPT
                 ![req[r].torrent].sinceClose =
                     IF Live(req[r].torrent) THEN 0 ELSE -1]
    /\ UNCHANGED <<torrents>>
    /\ UNCHANGED rng

(* ------------------------------ the timers ----------------------------- *)
\* the callback given to setTimeout at lines 169-173
TimerFire(t) ==
    LET s == t.torrent IN
    /\ NoMicrotasks
    /\ BagIn(t, timers)
    /\ t.left = 0
    /\ timers' = timers (-) SetToBag({t})
    /\ torrents' = [torrents EXCEPT ![s].destroyed = TRUE]
    /\ activeTorrents' = [activeTorrents EXCEPT ![torrents[s].infoHash] = NoEntry]
    /\ obs' = IF Live(s)
              THEN [obs EXCEPT ![s].destroyedBy =
                        IF obs[s].age < TORRENT_TTL
                        THEN "timerEarly" ELSE "timer"]
              ELSE obs
    /\ UNCHANGED <<req>>
    /\ UNCHANGED rng

\* time passes; a timer whose deadline has come fires first
Tick ==
    /\ NoMicrotasks
    /\ \A t \in Armed : t.left > 0
    /\ timers' = [t \in {Timer(u.torrent, u.left - 1) : u \in Armed} |->
                     timers[Timer(t.torrent, t.left + 1)]]
    /\ activeTorrents' = [h \in InfoHashes |->
                            IF activeTorrents[h] = NoEntry THEN NoEntry
                            ELSE [activeTorrents[h] EXCEPT !.timeout = @ - 1]]
    /\ obs' = [s \in Sessions |->
                 [obs[s] EXCEPT
                    !.age = IF @ \in 0..(TORRENT_TTL - 1) THEN @ + 1 ELSE @,
                    !.sinceClose = IF @ \in 0..(TORRENT_TTL - 2) THEN @ + 1 ELSE -1]]
    /\ UNCHANGED <<torrents, req>>
    /\ UNCHANGED rng

Next ==
    \/ \E r \in Requests : StreamNoMagnet(r)
    \/ \E r \in Requests, m \in Magnets : StreamAdd(r, m)
    \/ \E r \in Requests, m \in Magnets : StreamJoinWait(r, m)
    \/ \E r \in Requests, m \in Magnets, g \in Ranges : StreamJoinReady(r, m, g)
    \/ \E r \in Requests, g \in Ranges : StreamResume(r, g)
    \/ \E s \in Requests : TorrentReady(s)
    \/ \E s \in Requests : TorrentError(s)
    \/ \E r \in Requests : StreamError(r)
    \/ \E r \in Requests : ResClose(r)
    \/ \E s \in Requests, left \in 0..TORRENT_TTL : TimerFire(Timer(s, left))
    \/ Tick

Spec == Init /\ [][Next]_vars

(* -------------------- the response head, on its own -------------------- *)
\* The head of a response depends on req.headers.range and file.length only
\* (lines 95-139).  RangeSpec takes a request to the point where the file
\* has been selected, for every header value and file length, and runs the
\* branch the handler takes.
RangeInit ==
    /\ torrents = <<>>
    /\ activeTorrents = [h \in InfoHashes |-> NoEntry]
    /\ timers = EmptyBag
    /\ req = [r \in Requests |-> IdleReq]
    /\ obs = <<>>
    /\ rng \in [range : RangeHeaders, fileSize : FileSizes, res : {NoRes}]

\* if (range) { ... res.writeHead(206, headers) ... }
RangeMode ==
    /\ rng.res = NoRes
    /\ Truthy(rng.range)
    /\ rng' = [rng EXCEPT !.res = RangeResponse(rng.range.value, rng.fileSize)]
    /\ UNCHANGED <<torrents, activeTorrents, timers, req, obs>>

\* else { ... res.writeHead(200, ...) ... }
FullMode ==
    /\ rng.res = NoRes
    /\ ~Truthy(rng.range)
    /\ rng' = [rng EXCEPT !.res = FullResponse(rng.fileSize)]
    /\ UNCHANGED <<torrents, activeTorrents, timers, req, obs>>

RangeNext == RangeMode \/ FullMode

RangeSpec == RangeInit /\ [][RangeNext]_vars

(* ============================== the claims ============================= *)
SessionsOf(h) == {s \in Sessions : torrents[s].infoHash = h}
HashOf(s)     == torrents[s].infoHash

\* the requests that hold torrent s: a request for a magnet link always holds
\* a torrent of the link's info hash (client.get matches by info hash,
\* client.add creates the torrent with it)
Holders(s) == {r \in Requests : req[r].torrent = s}
PastReady(r) == req[r].pc \in {"resume", "streaming", "done", "closed"}
                  /\ req[r].torrent # NoTorrent

\* the number of armed timers whose callback captured a torrent of content h
ArmedFor(h) == {t \in Armed : HashOf(t.torrent) = h}
ArmedOn(s)  == {t \in Armed : t.torrent = s}

\* C1: as long as no torrent of a content identifier has been destroyed
\* (the identifier was never seen before and its first session is still
\* there), however many requests for it have arrived and however their steps
\* interleave with 'ready', client.add has been called at most once for it
\* and all requests past the readiness wait hold the same Torrent.
C1_Dedup ==
    \A h \in InfoHashes :
        (\A s \in SessionsOf(h) : Live(s)) =>
            /\ Cardinality(SessionsOf(h)) <= 1
            /\ \A r1, r2 \in Requests :
                   (PastReady(r1) /\ PastReady(r2)
                      /\ HashOf(req[r1].torrent) = h /\ HashOf(req[r2].torrent) = h)
                   => req[r1].torrent = req[r2].torrent

\* two requests for one content arrived before 'ready'; both have been
\* released by it, the first is streaming, the second is about to continue
C1_Witness ==
    /\ Len(torrents) = 1
    /\ req[1].pc = "streaming" /\ req[2].pc = "resume"
    /\ req[1].torrent = 1 /\ req[2].torrent = 1

\* C2: no torrent is destroyed by timer expiry less than TORRENT_TTL after
\* its most recent keepTorrentAlive.
C2_NoEarlyEviction ==
    \A s \in Sessions : obs[s].destroyedBy # "timerEarly"

\* C3: per content identifier at most one timer is armed, it is the one the
\* cache entry holds, and no timer is armed when there is no entry.
C3_OneTimerPerId ==
    \A h \in InfoHashes :
        /\ Cardinality(ArmedFor(h)) <= 1
        /\ \A t \in ArmedFor(h) :
              /\ timers[t] = 1
              /\ activeTorrents[h] # NoEntry
              /\ t = Timer(activeTorrents[h].torrent, activeTorrents[h].timeout)

\* C4: a torrent that a request is transferring from (headers sent, stream
\* piped, response not closed) has not been destroyed by timer expiry.
C4_NoEvictionWhileServing ==
    \A r \in Requests :
        req[r].pc = "streaming" =>
            obs[req[r].torrent].destroyedBy \notin {"timer", "timerEarly"}

\* C5: after a fatal error of a torrent the torrent is destroyed and, until
\* a new torrent is created for its content identifier, the cache holds no
\* entry for that identifier (so the next request creates a new torrent).
\* Stated for the torrents whose 'error' event the program listens to.
C5_FatalEviction ==
    \A s \in Sessions :
        (/\ obs[s].destroyedBy = "error"
         /\ torrents[s].listeners > 0
         /\ \A u \in SessionsOf(HashOf(s)) : u <= s)
        => /\ ~Live(s)
           /\ activeTorrents[HashOf(s)] = NoEntry
           /\ \A m \in Magnets : InfoHash(m) = HashOf(s) => ClientGet(m) = NoTorrent

\* C6: for TORRENT_TTL after a response that was reading a live torrent has
\* closed, and unless the torrent has a fatal error, the torrent is not
\* destroyed and the cache entry of its identifier holds it, so that a
\* request for the identifier in that time reuses it.
C6_DisconnectSurvives ==
    \A s \in Sessions :
        (obs[s].sinceClose \in 0..(TORRENT_TTL - 1) /\ obs[s].destroyedBy # "error")
        => /\ Live(s)
           /\ activeTorrents[HashOf(s)] # NoEntry
           /\ activeTorrents[HashOf(s)].torrent = s
           /\ \A m \in Magnets : InfoHash(m) = HashOf(s) => ClientGet(m) = s

\* C7: a 'close' or stream 'error' callback of a request whose torrent has
\* been evicted (destroyed, no cache entry for its identifier) changes
\* neither the cache table nor the timers.
C7_RefreshNoOpWhenEvicted ==
    [][\A r \in Requests :
          (/\ req[r].pc = "streaming"
           /\ (req'[r].pc = "closed" \/ req'[r].stream = "errored")
           /\ req'[r] # req[r]
           /\ ~Live(req[r].torrent)
           /\ activeTorrents[HashOf(req[r].torrent)] = NoEntry)
          => UNCHANGED <<activeTorrents, timers>>]_vars

\* C8: a live torrent that has been refreshed and that no open request is
\* attached to any more (only a new request could refresh it) has an armed
\* eviction timer of its own: without one it would never be torn down.
C8_IdleSessionHasTimer ==
    \A s \in Sessions :
        (/\ Live(s) /\ obs[s].age >= 0
         /\ \A r \in Holders(s) : req[r].pc \in {"done", "closed"})
        => ArmedOn(s) # {}

\* C9: a request is not left waiting on a torrent whose creation has failed
\* (the torrent was torn down before it became ready): it is answered with
\* an error status, and the failed torrent has no cache entry and no timer.
C9_CreateFailureAnswered ==
    \A r \in Requests :
        (/\ req[r].torrent # NoTorrent
         /\ ~torrents[req[r].torrent].ready
         /\ ~Live(req[r].torrent))
        => /\ req[r].pc \in {"resume", "done"}
           /\ req[r].pc = "done" => req[r].status >= 400
           /\ activeTorrents[HashOf(req[r].torrent)].torrent # req[r].torrent
           /\ ArmedOn(req[r].torrent) = {}

\* C10: at most one live torrent per content identifier in every state, and
\* no step takes the ready flag of a torrent from true back to false.
AtMostOneLive ==
    \A h \in InfoHashes : Cardinality({s \in SessionsOf(h) : Live(s)}) <= 1
ReadyStays ==
    \A s \in Sessions : torrents[s].ready => torrents'[s].ready
C10_OneSessionReadyOnce == []AtMostOneLive /\ [][ReadyStays]_vars

\* a second torrent of a content is live after the first was destroyed, and
\* both have been ready
C10_Witness ==
    \E s, u \in Sessions :
        /\ s < u /\ HashOf(s) = HashOf(u)
        /\ ~Live(s) /\ Live(u)
        /\ torrents[s].ready /\ torrents[u].ready

\* C11: every response head written with status 206 for a file of length L
\* carries a range with 0 <= start <= end <= L-1 and a Content-Length of
\* end - start + 1, whatever the value of the Range header.
C11_RangeWithinFile ==
    rng.res.status = 206 =>
        /\ ~rng.res.start.nan /\ ~rng.res.end.nan
        /\ 0 <= rng.res.start.val
        /\ rng.res.start.val <= rng.res.end.val
        /\ rng.res.end.val <= rng.fileSize - 1
        /\ rng.res.headers.ContentLength =
               Num(rng.res.end.val - rng.res.start.val + 1)

\* the header value "bytes=s-e" and "bytes=s-"
BytesRange(s, e) == <<"bytes=">> \o NatToString(s) \o <<"-">> \o NatToString(e)
BytesFrom(s)     == <<"bytes=">> \o NatToString(s) \o <<"-">>

\* C12: once the response head is written, for a file of length L:
\* a header "bytes=s-e" with 0 <= s <= e <= L-1 has got status 206,
\* Content-Range "bytes s-e/L" and Content-Length e-s+1; a header "bytes=s-"
\* has got status 206, Content-Range "bytes s-(L-1)/L" and Content-Length
\* L-s; no header has got status 200 and Content-Length L; Accept-Ranges is
\* "bytes" in each case.
C12_ResponseMode ==
    LET L   == rng.fileSize
        res == rng.res
    IN res # NoRes =>
        /\ \A s, e \in 0..(L - 1) :
              (s <= e /\ rng.range.present /\ rng.range.value = BytesRange(s, e))
              => /\ res.status = 206
                 /\ res.headers.ContentRange =
                       <<"bytes ">> \o NatToString(s) \o <<"-">> \o NatToString(e)
                                    \o <<"/">> \o NatToString(L)
                 /\ res.headers.ContentLength = Num(e - s + 1)
                 /\ res.headers.AcceptRanges = "bytes"
                 /\ res.start = Num(s) /\ res.end = Num(e)
        /\ \A s \in 0..(L - 1) :
              (rng.range.present /\ rng.range.value = BytesFrom(s))
              => /\ res.status = 206
                 /\ res.headers.ContentRange =
                       <<"bytes ">> \o NatToString(s) \o <<"-">>
                                    \o NatToString(L - 1) \o <<"/">> \o NatToString(L)
                 /\ res.headers.ContentLength = Num(L - s)
                 /\ res.headers.AcceptRanges = "bytes"
                 /\ res.start = Num(s) /\ res.end = Num(L - 1)
        /\ ~rng.range.present
              => /\ res.status = 200
                 /\ res.headers.ContentLength = Num(L)
                 /\ res.headers.AcceptRanges = "bytes"

\* "bytes=1-2" on a file of three bytes has been answered
C12_Witness ==
    /\ rng.range = [present |-> TRUE, value |-> <<"bytes=", "1", "-", "2">>]
    /\ rng.fileSize = 3
    /\ rng.res.status = 206
    /\ rng.res.headers.ContentRange = <<"bytes ", "1", "-", "2", "/", "3">>
    /\ rng.res.headers.ContentLength = Num(2)

\* C13: a request served on a torrent whose file list holds no video file is
\* answered 404 with no stream created, and that request leaves the cache
\* table and the timers as they were (file selection comes before the
\* refresh).
Served(r) ==
    /\ req[r].pc \in {"idle", "resume"}
    /\ req'[r].pc \in {"done", "streaming"}
    /\ req'[r].torrent # NoTorrent
C13_NoPlayableFile ==
    [][\A r \in Requests :
          (Served(r) /\ FindFile(Files(HashOf(req'[r].torrent))) = 0)
          => /\ req'[r].status = 404
             /\ req'[r].stream = "none"
             /\ UNCHANGED <<activeTorrents, timers>>]_vars

\* C14: the step in which the response of a request closes destroys the
\* stream of that request, changes no other request (their streams stay as
\* they were) and destroys no torrent.
C14_DisconnectIsLocal ==
    [][\A r \in Requests :
          (req[r].pc = "streaming" /\ req'[r].pc = "closed")
          => /\ req'[r].stream = "destroyed"
             /\ \A q \in Requests \ {r} : req'[q] = req[q]
             /\ torrents' = torrents]_vars

\* one of two requests on a torrent has closed; the other still streams from
\* the torrent, which is not destroyed
C14_Witness ==
    /\ req[1].pc = "closed" /\ req[2].pc = "streaming"
    /\ req[2].stream = "open"
    /\ req[1].torrent = req[2].torrent
    /\ Live(req[2].torrent)

\* C15: every live torrent of the engine, ready or not, has a cache entry
\* with an armed timer.
C15_EntryWithSession ==
    \A s \in Sessions :
        Live(s) =>
            /\ activeTorrents[HashOf(s)] # NoEntry
            /\ activeTorrents[HashOf(s)].torrent = s
            /\ BagIn(Timer(s, activeTorrents[HashOf(s)].timeout), timers)

\* C16: the step in which the stream of a request fails ends the transfer of
\* that request (the response does not stay open), re-arms the timer of the
\* torrent to TORRENT_TTL, destroys no torrent and changes no other request.
C16_StreamErrorEndsTransfer ==
    [][\A r \in Requests :
          (req[r].stream = "open" /\ req'[r].stream = "errored")
          => /\ req'[r].pc # "streaming"
             /\ activeTorrents'[HashOf(req[r].torrent)] =
                    [torrent |-> req[r].torrent, timeout |-> TORRENT_TTL]
             /\ BagIn(Timer(req[r].torrent, TORRENT_TTL), timers')
             /\ torrents' = torrents
             /\ \A q \in Requests \ {r} : req'[q] = req[q]]_vars

\* C17: as long as a torrent is not ready no request that holds it has got
\* past the readiness wait: none has refreshed it (no refresh observed, no
\* cache entry, no timer), selected a file or sent a status.
C17_ReadyBeforeServe ==
    \A s \in Sessions :
        ~torrents[s].ready =>
            /\ obs[s].age = -1
            /\ activeTorrents[HashOf(s)].torrent # s
            /\ ArmedOn(s) = {}
            /\ \A r \in Holders(s) :
                  /\ req[r].pc \in {"adding", "waitReady"}
                  /\ req[r].status = 0
                  /\ req[r].stream = "none"

\* the request that created the torrent and a request that joined it have
\* both been released by 'ready'; neither has refreshed or answered yet
C17_Witness ==
    /\ req[1].pc = "resume" /\ req[2].pc = "resume"
    /\ req[1].torrent = req[2].torrent
    /\ torrents[req[1].torrent].ready
    /\ obs[req[1].torrent].age = -1

\* C18: every entry of the cache table holds a torrent that is not destroyed
\* and that client.get returns for its identifier (stated for the torrents
\* that carry an 'error' listener, i.e. that have served a stream).
C18_EntriesAreLive ==
    \A h \in InfoHashes :
        (/\ activeTorrents[h] # NoEntry
         /\ torrents[activeTorrents[h].torrent].listeners > 0) =>
            /\ Live(activeTorrents[h].torrent)
            /\ HashOf(activeTorrents[h].torrent) = h
            /\ \A m \in Magnets :
                  InfoHash(m) = h => ClientGet(m) = activeTorrents[h].torrent

\* C19: a timer that fires removes a cache entry only if the entry holds the
\* torrent the timer was armed for.
C19_TimerActsOnOwnSession ==
    [][\A t \in Armed :
          (t.left = 0 /\ timers' = timers (-) SetToBag({t}))
          => \A h \in InfoHashes :
                (activeTorrents[h] # NoEntry /\ activeTorrents'[h] = NoEntry)
                => activeTorrents[h].torrent = t.torrent]_vars

====
